---- MODULE Spec2Model ----
(***************************************************************************)
(* A model of twistory.py: Twistory.displayTimeline, the paginated fetch   *)
(* loop that walks a user's timeline newest-first, filters the posts by    *)
(* the (after, before) id window and prints the retained ones, together    *)
(* with the try/except dispatch around it and Twistory.handleTweepError,   *)
(* and the start of the script that leads to it: parseOptions,             *)
(* parseConfig, verifyConfig, getAccessInfo and setupApi.                  *)
(*                                                                         *)
(* Python's None is modelled by the empty set and an integer n by {n}, so  *)
(* that "lastid" and "exitcode" can be absent without mixing types.        *)
(***************************************************************************)
EXTENDS Integers, Sequences, FiniteSets, TLC

\* ---------------------------------------------------------------- bounds
\* Largest post id of the modelled timelines (ids are 1..MaxId).
MaxId == 4
\* Largest number of posts one page carries (count=200 in the source).
PageCount == 3

\* Largest post id of the timelines of the whole-script specification.
MainMaxId == 2
\* Largest number of command-line arguments (an option counts with its
\* argument).
MaxArgs == 2

\* ------------------------------------------------------ program constants
EXIT_ERROR == 1
EXIT_SUCCESS == 0
\* default of the "after" and "before" options: the bound is not supplied
NoBound == -1
RateLimited == 400
Unauthorized == 401
SearchRateLimited == 420
Broken == 500
FailWhale == 503
\* time.sleep(5) of the IncompleteRead handler
IncompleteReadSleep == 5
\* "diff = diff + 2" of handleTweepError
SleepMargin == 2
\* seconds until the quota resets, as reported by rate_limit_status()
ResetIn == 10

\* ------------------------------------------------------------ Python values
None == {}
Some(n) == {n}
Val(s) == CHOOSE n \in s : TRUE
\* Variant of Truthy: every value passes the test.
TruthyAlways(s) == TRUE

\* Python truthiness of an int-or-None: None and 0 are falsy.
Truthy(s) == s # None /\ s # Some(0)

Max(S) == CHOOSE x \in S : \A y \in S : y <= x

\* ------------------------------------------------------------- exceptions
\* What a failing call raises.  A TweepError carries the HTTP status of the
\* response; quota_ok tells whether the rate_limit_status() call made by
\* handleTweepError would itself succeed, remaining_hits and reset_in what
\* it would report.
Exc(c, s, q, r) ==
    [class |-> c, status |-> s, quota_ok |-> q, remaining_hits |-> r,
     reset_in |-> ResetIn]

NoExc == Exc("none", 0, TRUE, 0)

\* Failures of the page request (line 119).
RequestFailures ==
    { Exc("IncompleteRead", 0, TRUE, 0),
      Exc("TweepError", FailWhale, TRUE, 0),
      Exc("TweepError", Broken, TRUE, 0),
      Exc("TweepError", Unauthorized, TRUE, 0),
      Exc("TweepError", RateLimited, TRUE, 0),
      Exc("TweepError", RateLimited, TRUE, 1),
      Exc("TweepError", FailWhale, FALSE, 0),
      Exc("OSError", 0, TRUE, 0) }

\* Ctrl-C: KeyboardInterrupt derives from BaseException, not Exception.
KeyboardInterrupt == Exc("KeyboardInterrupt", 0, TRUE, 0)

\* Failures while a retained post is rewritten and printed (lines 147-160):
\* the t.co lookup (lines 151-153) raises OSError when the connection
\* fails, and finditer (line 148) raises TypeError where the interpreter
\* refuses a str pattern on the bytes that encode() returned.
RenderFailures ==
    { Exc("OSError", 0, TRUE, 0), Exc("TypeError", 0, TRUE, 0) }

\* Variant of IsInstance: the first clause is a bare "except:", which
\* matches every exception.
IsInstanceBare(e, cls) == e.class = cls \/ cls = "Exception"

\* Python's class hierarchy: all the classes above derive from Exception.
IsInstance(e, cls) ==
    \/ e.class = cls
    \/ cls = "Exception" /\
       e.class \in {"IncompleteRead", "TweepError", "OSError", "TypeError"}

\* The except clauses of displayTimeline, in source order.
ExceptClauses == <<"Exception", "IncompleteRead", "TweepError">>

\* Index of the clause that handles e: the first one that matches; 0 when
\* the exception propagates out of displayTimeline.
Handler(e) ==
    LET M == { i \in 1..Len(ExceptClauses) : IsInstance(e, ExceptClauses[i]) }
    IN  IF M = {} THEN 0 ELSE CHOOSE i \in M : \A j \in M : i <= j

\* handleTweepError: ret is the returned value ("None", "True", "False"),
\* sleep the seconds it slept before returning.
handleTweepError(e) ==
    IF ~e.quota_ok THEN [ret |-> "None", sleep |-> 0]
    ELSE LET rl   == e.status \in {RateLimited, SearchRateLimited}
             diff == IF rl THEN e.reset_in ELSE 0
         IN  IF rl /\ e.remaining_hits > 0 THEN [ret |-> "None", sleep |-> 0]
             ELSE IF diff # 0
                  THEN [ret |-> "True", sleep |-> diff + SleepMargin]
                  ELSE [ret |-> "False", sleep |-> 0]

\* ------------------------------------------------------------ range filter
\* Variant of ResolveBefore: "before" follows every examined post.
ResolveBeforeEveryPost(bef, id) == id + 1

\* line 126-133: "before" defaults to the first examined post's id + 1
ResolveBefore(bef, id) == IF bef = NoBound THEN id + 1 ELSE bef

\* Variant of IsStop: the threshold test never fires.
IsStopNever(id, aft) == FALSE

\* line 135
IsStop(id, aft) == id < aft

\* line 146
InRange(id, aft, bef) == bef > id /\ id > aft

\* Variant of NextCursor: the cursor keeps the examined post itself.
NextCursorSamePost(id) == id

\* Variant of NextCursor: the cursor moves above the examined post.
NextCursorUp(id) == id + 1

\* line 124
NextCursor(id) == id - 1

\* ---------------------------------------------------------------- upstream
\* The posts of the timeline that a request with cursor c can return.
Older(tl, c) == IF c = None THEN tl ELSE { p \in tl : p <= Val(c) }

RECURSIVE Newest(_, _)
\* The k newest posts of S, newest first.
Newest(S, k) ==
    IF k = 0 \/ S = {} THEN <<>>
    ELSE <<Max(S)>> \o Newest(S \ {Max(S)}, k - 1)

\* A successful user_timeline(max_id=c, count=...) response: the newest
\* posts not above the cursor, in strictly decreasing id order; empty only
\* when no such post is left.
Pages(tl, c) ==
    IF Older(tl, c) = {} THEN { <<>> }
    ELSE { Newest(Older(tl, c), k) : k \in 1..PageCount }

\* ------------------------------------------------------------ command line
\* One command-line item: an option with its argument, or (opt = "") a
\* positional argument.
Tok(o, a) == [opt |-> o, arg |-> a]

TargetUser == "alice"

Tokens ==
    { Tok("-a", "1"), Tok("-a", "x"), Tok("-b", "3"), Tok("-h", ""),
      Tok("-u", TargetUser), Tok("-z", ""), Tok("", "file") }

ArgLists == UNION { [1..n -> Tokens] : n \in 0..MaxArgs }

\* The option letters of getopt's "a:b:hlru:v" that the tokens use.
KnownFlags == {"-a", "-b", "-h", "-u"}

\* int(a): defined on the decimal strings only.
IsInt(a) == a \in {"1", "3"}

IntOf(a) == IF a = "1" THEN 1 ELSE 3

\* Index of the first positional argument, Len + 1 when there is none.
FirstPositional(av) ==
    LET P == { i \in 1..Len(av) : av[i].opt = "" }
    IN  IF P = {} THEN Len(av) + 1 ELSE CHOOSE i \in P : \A j \in P : i <= j

\* Variant of Getopt: options are recognised after positional arguments
\* too (GNU style).
GetoptGnu(av) ==
    [error |-> \E i \in 1..Len(av) : av[i].opt \notin KnownFlags \cup {""},
     opts  |-> SelectSeq(av, LAMBDA t : t.opt # ""),
     args  |-> SelectSeq(av, LAMBDA t : t.opt = "")]

\* getopt.getopt (line 335): scanning stops at the first positional
\* argument; an unknown flag before it raises GetoptError.
Getopt(av) ==
    LET p == FirstPositional(av)
    IN  [error |-> \E i \in 1..(p - 1) : av[i].opt \notin KnownFlags,
         opts  |-> SubSeq(av, 1, p - 1),
         args  |-> SubSeq(av, p, Len(av))]

\* The options as the constructor sets them (lines 73-80).
DefaultOpts == [after |-> NoBound, before |-> NoBound, user |-> ""]

RECURSIVE RunOpts(_, _, _)
\* The loop of lines 339-357 from option i on, o being the options set so
\* far: it ends with "parsed", with "help" (Usage(EXIT_SUCCESS)) or with
\* "invalid" (ValueError, sys.exit).
RunOpts(opts, i, o) ==
    IF i > Len(opts) THEN [outcome |-> "parsed", o |-> o]
    ELSE LET t == opts[i]
         IN  CASE t.opt = "-a" ->
                    IF IsInt(t.arg)
                    THEN RunOpts(opts, i + 1, [o EXCEPT !.after = IntOf(t.arg)])
                    ELSE [outcome |-> "invalid", o |-> o]
               [] t.opt = "-b" ->
                    IF IsInt(t.arg)
                    THEN RunOpts(opts, i + 1, [o EXCEPT !.before = IntOf(t.arg)])
                    ELSE [outcome |-> "invalid", o |-> o]
               [] t.opt = "-h" -> [outcome |-> "help", o |-> o]
               [] t.opt = "-u" ->
                    RunOpts(opts, i + 1, [o EXCEPT !.user = t.arg])
               [] OTHER -> RunOpts(opts, i + 1, o)

\* parseOptions: outcome is "ok", "usage" (Usage(err) was raised) or
\* "invalid" (sys.exit(EXIT_ERROR) after the message of line 356).
parseOptions(av) ==
    LET g == Getopt(av)
        r == RunOpts(g.opts, 1, DefaultOpts)
    IN  IF g.error
        THEN [outcome |-> "usage", err |-> EXIT_ERROR, o |-> DefaultOpts]
        ELSE IF r.outcome = "help"
        THEN [outcome |-> "usage", err |-> EXIT_SUCCESS, o |-> r.o]
        ELSE IF r.outcome = "invalid"
        THEN [outcome |-> "invalid", err |-> EXIT_ERROR, o |-> r.o]
        ELSE IF r.o.user = "" \/ g.args # <<>>
        THEN [outcome |-> "usage", err |-> EXIT_ERROR, o |-> r.o]
        ELSE [outcome |-> "ok", err |-> EXIT_SUCCESS, o |-> r.o]

\* ---------------------------------------------------------------- config
\* A config line "<username>_<field> = <value>".
Line(u, f) == [username |-> u, field |-> f]

Fields == {"key", "secret"}

ConfigLines == { Line(u, f) : u \in {"<api>", TargetUser}, f \in Fields }

\* parseConfig, lines 294-320: the fields of the application credentials
\* that the file sets.
ApiFields(file) == { l.field : l \in { m \in file : m.username = "<api>" } }

\* parseConfig, lines 294-320: the entries of self.users that the file
\* sets.
UserEntries(file) == { l \in file : l.username # "<api>" }

\* "user in self.users" (line 181)
UserKnown(us, u) == \E f \in Fields : Line(u, f) \in us

\* ------------------------------------------------------------------- state
VARIABLES
    timeline,   \* upstream: the ids of the user's posts
    after,      \* the "after" option (-a), NoBound when not given
    opt_before, \* the "before" option (-b), NoBound when not given
    before,     \* local "before": the -b option, resolved on the first post
    lastid,     \* the cursor: None, or {id of the last examined post - 1}
    loop,       \* local "loop"
    pageitems,  \* the page being scanned
    idx,        \* position of the for loop in pageitems
    pc,         \* "request", "scan" or "done"
    stdout,     \* the lines printed to standard output
    exc,        \* the exception caught in the latest iteration, or NoExc
    slept,      \* seconds slept by the handler of that exception
    exitcode,   \* None while running, else the exit status
    outage,     \* upstream: down for good, every later request fails
    sent,       \* history: <<>> or <<cursor of the latest page request>>
    flip,       \* history: toggled by every page request
    examined,   \* history: the ids the for loop has examined, in order
    delivered,  \* history: the ids upstream has delivered in pages
    failed,     \* history: some exception was caught in this run
    argv,       \* sys.argv[1:]
    user,       \* the "user" option (-u), "" when not given
    cfg_file,   \* the lines of the config file
    cfg_readable,    \* whether the config file can be opened for reading
    api_credentials, \* self.api_credentials: the fields it holds
    users,      \* self.users: the (username, field) entries it holds
    stderr,     \* the messages written to standard error
    cfg_read    \* history: the config file has been opened

\* The state of displayTimeline that the start of the script never touches.
fetch == <<lastid, loop, pageitems, idx, slept, outage, sent, flip, examined,
           delivered, failed>>

\* The state of the start of the script.
startup == <<argv, user, cfg_file, cfg_readable, api_credentials, users,
             stderr, cfg_read>>

vars == <<timeline, after, opt_before, before, lastid, loop, pageitems, idx,
          pc, stdout, exc, slept, exitcode, outage, sent, flip, examined,
          delivered, failed, argv, user, cfg_file, cfg_readable,
          api_credentials, users, stderr, cfg_read>>

UserLine == [kind |-> "user", id |-> 0]
UsageText == [kind |-> "usage", id |-> 0]
AuthLine == [kind |-> "auth", id |-> 0]
PostLine(id) == [kind |-> "post", id |-> id]

IsPost(l) == l.kind = "post"
\* The ids of the printed post lines, in print order.
Printed == [i \in 1..Len(SelectSeq(stdout, IsPost)) |->
               SelectSeq(stdout, IsPost)[i].id]

Range(s) == { s[i] : i \in 1..Len(s) }

Init ==
    /\ timeline \in SUBSET (1..MaxId)
    /\ after \in {NoBound} \cup (0..MaxId)
    /\ opt_before \in {NoBound} \cup (1..(MaxId + 1))
    /\ before = opt_before
    /\ lastid = None
    /\ loop = TRUE
    /\ pageitems = <<>>
    /\ idx = 1
    /\ pc = "request"
    /\ stdout = <<>>
    /\ exc = NoExc
    /\ slept = 0
    /\ exitcode = None
    /\ outage = FALSE
    /\ sent = <<>>
    /\ flip = FALSE
    /\ examined = <<>>
    /\ delivered = {}
    /\ failed = FALSE
    /\ argv = <<>>
    /\ user = TargetUser
    /\ cfg_file = ConfigLines
    /\ cfg_readable = TRUE
    /\ api_credentials = Fields
    /\ users = UserEntries(ConfigLines)
    /\ stderr = <<>>
    /\ cfg_read = TRUE

\* Variant of EndIteration: the while loop ignores "loop".
EndIterationWhileTrue(lid, lp) == IF ~Truthy(lid) THEN "done" ELSE "request"

\* Variant of EndIteration: the while loop is left after any iteration.
EndIterationOnce(lid, lp) == "done"

\* Lines 170-174 and the "while loop" test: where control goes when an
\* iteration of the while loop is over.
EndIteration(lid, lp) ==
    IF ~Truthy(lid) THEN "done" ELSE IF lp THEN "request" ELSE "done"

\* displayTimeline returned: the script ends with status 0.
Finish(next) == exitcode' = IF next = "done" THEN Some(EXIT_SUCCESS) ELSE None

\* Lines 161-174: exception e was raised inside the try block while the
\* cursor was lid.  The first matching except clause runs, then the end of
\* the iteration.
Catch(e, lid) ==
    LET h == Handler(e)
        r == handleTweepError(e)
    IN  /\ exc' = e
        /\ failed' = TRUE
        /\ CASE h = 1 ->
                  /\ slept' = 0
                  /\ pc' = EndIteration(lid, loop)
                  /\ Finish(EndIteration(lid, loop))
             [] h = 2 ->
                  /\ slept' = IncompleteReadSleep
                  /\ pc' = EndIteration(lid, loop)
                  /\ Finish(EndIteration(lid, loop))
             [] h = 3 ->
                  /\ slept' = r.sleep
                  /\ pc' = IF r.ret = "True"
                           THEN EndIteration(lid, loop) ELSE "done"
                  /\ Finish(IF r.ret = "True"
                            THEN EndIteration(lid, loop) ELSE "done")
             [] OTHER ->
                  /\ slept' = 0
                  /\ pc' = "done"
                  /\ exitcode' = Some(EXIT_ERROR)

\* Line 119 succeeded with page pg; lines 120-122.
Respond(pg) ==
    /\ ~outage
    /\ stdout' = Append(stdout, UserLine)
    /\ pageitems' = pg
    /\ delivered' = delivered \cup Range(pg)
    /\ idx' = 1
    /\ exc' = NoExc
    /\ slept' = 0
    /\ pc' = IF pg = <<>> THEN "done" ELSE "scan"
    /\ Finish(IF pg = <<>> THEN "done" ELSE "scan")
    /\ UNCHANGED <<outage, failed>>

\* Line 119 raised e; down tells whether upstream stays down from now on.
Fail(e, down) ==
    /\ outage => (e.class = "TweepError" /\ e.status = FailWhale)
    /\ down => (e.class = "TweepError" /\ e.status = FailWhale)
    /\ outage' = (outage \/ down)
    /\ Catch(e, lastid)
    /\ UNCHANGED <<stdout, pageitems, delivered, idx>>

\* One page request: line 119 and what follows it in the iteration.
Request ==
    /\ pc = "request"
    /\ sent' = <<lastid>>
    /\ flip' = ~flip
    /\ \/ \E pg \in Pages(timeline, lastid) : Respond(pg)
       \/ \E e \in RequestFailures, down \in BOOLEAN : Fail(e, down)
    /\ UNCHANGED <<timeline, after, opt_before, before, lastid, loop,
                   examined, startup>>

\* The for loop moves past the current post (line 123).
Advance(lid, lp) ==
    IF idx < Len(pageitems)
    THEN /\ idx' = idx + 1
         /\ pc' = "scan"
         /\ exitcode' = None
    ELSE /\ idx' = idx
         /\ pc' = EndIteration(lid, lp)
         /\ Finish(EndIteration(lid, lp))

\* One pass of the for loop body, lines 123-160, on pageitems[idx].
Scan ==
    /\ pc = "scan"
    /\ LET id  == pageitems[idx]
           bef == ResolveBefore(before, id)
           lid == Some(NextCursor(id))
       IN  /\ lastid' = lid
           /\ before' = bef
           /\ examined' = Append(examined, id)
           /\ IF IsStop(id, after)
              THEN /\ loop' = FALSE
                   /\ idx' = idx
                   /\ pc' = EndIteration(lid, FALSE)
                   /\ Finish(EndIteration(lid, FALSE))
                   /\ UNCHANGED <<stdout, exc, slept, failed>>
              ELSE /\ loop' = loop
                   /\ IF InRange(id, after, bef)
                      THEN \/ /\ stdout' = Append(stdout, PostLine(id))
                              /\ Advance(lid, loop)
                              /\ UNCHANGED <<exc, slept, failed>>
                           \/ /\ \E e \in RenderFailures : Catch(e, lid)
                              /\ UNCHANGED <<stdout, idx>>
                      ELSE /\ Advance(lid, loop)
                           /\ UNCHANGED <<stdout, exc, slept, failed>>
    /\ UNCHANGED <<timeline, after, opt_before, pageitems, outage, sent, flip,
                   delivered, startup>>

Next == Request \/ Scan

Spec == Init /\ [][Next]_vars

\* The program is sequential and always takes its next step.
FairSpec == Spec /\ WF_vars(Next)

\* ------------------------------------------------------- the whole script
\* The state when the script starts (lines 400-402), for every argument
\* list and every config file within the bounds.
MainInit ==
    /\ timeline \in SUBSET (1..MainMaxId)
    /\ argv \in ArgLists
    /\ cfg_file \in SUBSET ConfigLines
    /\ cfg_readable \in BOOLEAN
    /\ after = DefaultOpts.after
    /\ opt_before = DefaultOpts.before
    /\ user = DefaultOpts.user
    /\ before = NoBound
    /\ lastid = None
    /\ loop = TRUE
    /\ pageitems = <<>>
    /\ idx = 1
    /\ pc = "parseOptions"
    /\ stdout = <<>>
    /\ exc = NoExc
    /\ slept = 0
    /\ exitcode = None
    /\ outage = FALSE
    /\ sent = <<>>
    /\ flip = FALSE
    /\ examined = <<>>
    /\ delivered = {}
    /\ failed = FALSE
    /\ api_credentials = {}
    /\ users = {}
    /\ stderr = <<>>
    /\ cfg_read = FALSE

\* sys.exit(code), or an uncaught exception (code EXIT_ERROR).
Exit(code) == pc' = "done" /\ exitcode' = Some(code)

\* Line 404 and the Usage handler of lines 414-420.
ParseOptions ==
    /\ pc = "parseOptions"
    /\ LET r == parseOptions(argv)
       IN  /\ after' = r.o.after
           /\ opt_before' = r.o.before
           /\ user' = r.o.user
           /\ CASE r.outcome = "ok" ->
                     /\ pc' = "parseConfig"
                     /\ UNCHANGED <<exitcode, stdout, stderr>>
                [] r.outcome = "invalid" ->
                     /\ Exit(EXIT_ERROR)
                     /\ stderr' = Append(stderr, "invalid")
                     /\ UNCHANGED stdout
                [] r.outcome = "usage" /\ r.err = EXIT_ERROR ->
                     /\ Exit(EXIT_ERROR)
                     /\ stderr' = Append(stderr, "usage")
                     /\ UNCHANGED stdout
                [] r.outcome = "usage" /\ r.err = EXIT_SUCCESS ->
                     /\ Exit(EXIT_SUCCESS)
                     /\ stdout' = Append(stdout, UsageText)
                     /\ UNCHANGED stderr
    /\ UNCHANGED <<timeline, before, exc, fetch, argv, cfg_file, cfg_readable,
                   api_credentials, users, cfg_read>>

\* Line 405: parseConfig, lines 272-321.
ParseConfig ==
    /\ pc = "parseConfig"
    /\ IF cfg_readable
       THEN /\ cfg_read' = TRUE
            /\ api_credentials' = api_credentials \cup ApiFields(cfg_file)
            /\ users' = users \cup UserEntries(cfg_file)
            /\ pc' = "verifyConfig"
            /\ UNCHANGED <<exitcode, stderr>>
       ELSE /\ Exit(EXIT_ERROR)
            /\ stderr' = Append(stderr, "unable to open")
            /\ UNCHANGED <<cfg_read, api_credentials, users>>
    /\ UNCHANGED <<timeline, after, opt_before, before, stdout, exc, fetch,
                   argv, user, cfg_file, cfg_readable>>

\* Line 406: verifyConfig, lines 387-392.
VerifyConfig ==
    /\ pc = "verifyConfig"
    /\ IF api_credentials = Fields
       THEN /\ pc' = "getAccessInfo"
            /\ UNCHANGED <<exitcode, stderr>>
       ELSE /\ Exit(EXIT_ERROR)
            /\ stderr' = Append(stderr, "no api credentials")
    /\ UNCHANGED <<timeline, after, opt_before, before, stdout, exc, fetch,
                   argv, user, cfg_file, cfg_readable, api_credentials, users,
                   cfg_read>>

\* The ways the interactive authorization of lines 184-205 can go: no
\* authorization url (line 184 raises), no access token (line 188 or 189
\* raises), the config file cannot be appended to (lines 202-205), or all
\* of it works.
AuthOutcomes == {"no url", "no token", "unwritable", "authorized"}

\* Line 409: getAccessInfo, lines 177-205.
GetAccessInfo ==
    /\ pc = "getAccessInfo"
    /\ IF UserKnown(users, user)
       THEN /\ pc' = "setupApi"
            /\ UNCHANGED <<exitcode, stdout, stderr, users, cfg_file>>
       ELSE \E how \in AuthOutcomes :
              /\ stdout' = IF how = "no url" THEN stdout
                            ELSE stdout \o <<AuthLine, AuthLine, AuthLine>>
              /\ users' = IF how \in {"unwritable", "authorized"}
                           THEN users \cup { Line(user, f) : f \in Fields }
                           ELSE users
              /\ cfg_file' = IF how = "authorized"
                              THEN cfg_file \cup
                                   { Line(user, f) : f \in Fields }
                              ELSE cfg_file
              /\ IF how = "authorized"
                 THEN pc' = "setupApi" /\ UNCHANGED <<exitcode, stderr>>
                 ELSE Exit(EXIT_ERROR) /\ stderr' = Append(stderr, how)
    /\ UNCHANGED <<timeline, after, opt_before, before, exc, fetch, argv, user,
                   cfg_readable, api_credentials, cfg_read>>

\* Line 410: setupApi, lines 369-376, which reads users[user]["key"] and
\* users[user]["secret"]; then line 412 enters displayTimeline (lines
\* 105-116).
SetupApi ==
    /\ pc = "setupApi"
    /\ IF \A f \in Fields : Line(user, f) \in users
       THEN /\ pc' = "request"
            /\ before' = opt_before
            /\ UNCHANGED <<exitcode, stderr>>
       ELSE /\ Exit(EXIT_ERROR)
            /\ stderr' = Append(stderr, "KeyError")
            /\ UNCHANGED before
    /\ UNCHANGED <<timeline, after, opt_before, stdout, exc, fetch, argv, user,
                   cfg_file, cfg_readable, api_credentials, users, cfg_read>>

\* Ctrl-C at the current point of the run: inside the try block of
\* displayTimeline the except clauses of lines 161-168 are tried first;
\* what they let through reaches lines 423-425.
Interrupt ==
    /\ pc # "done"
    /\ IF pc \in {"request", "scan"}
       THEN Catch(KeyboardInterrupt, lastid)
       ELSE /\ exc' = KeyboardInterrupt
            /\ Exit(EXIT_ERROR)
            /\ UNCHANGED <<slept, failed>>
    /\ UNCHANGED <<timeline, after, opt_before, before, lastid, loop,
                   pageitems, idx, stdout, outage, sent, flip, examined,
                   delivered, startup>>

MainNext ==
    \/ ParseOptions
    \/ ParseConfig
    \/ VerifyConfig
    \/ GetAccessInfo
    \/ SetupApi
    \/ Request
    \/ Scan
    \/ Interrupt

MainSpec == MainInit /\ [][MainNext]_vars

\* ======================================================== properties

NoDuplicates(q) == \A i, j \in DOMAIN q : q[i] = q[j] => i = j
Decreasing(q) == \A i, j \in DOMAIN q : i < j => q[i] > q[j]
Times(q, x) == Cardinality({ i \in DOMAIN q : q[i] = x })

\* Some examined post was older than the "after" threshold.
StopSeen == \E i \in DOMAIN examined : examined[i] < after
\* Some examined post was at or below the "after" threshold.
BoundarySeen == \E i \in DOMAIN examined : examined[i] <= after

\* a is a strictly smaller cursor than b; None is "no upper bound".
CursorLess(a, b) == a # None /\ (b = None \/ Val(a) < Val(b))

\* handleTweepError's verdict on e is one of the ABORT outcomes.
AbortOutcome(e) == e.class = "TweepError" /\ handleTweepError(e).ret # "True"

\* C1: when the run is over, every delivered post p with
\* after < p < before has been printed exactly once, and the printed posts
\* are in delivery order (strictly decreasing id).
C1_InRangePrintedOnce ==
    pc = "done" =>
        /\ \A p \in delivered :
              (after < p /\ p < before) => Times(Printed, p) = 1
        /\ Decreasing(Printed)

\* C2: once a post with id < after has been examined the fetch is over: it
\* is the last post examined, nothing is requested or printed after it; in
\* the example scaled to after=2, before=5 and posts 4, 3, 1, a run without
\* failures prints exactly 4 then 3.
C2_StopEndsFetch ==
    /\ StopSeen =>
          /\ pc = "done"
          /\ \A i \in DOMAIN examined :
                examined[i] < after => i = Len(examined)
    /\ (pc = "done" /\ ~failed /\ after = 2 /\ opt_before = 5
        /\ timeline = {4, 3, 1}) => Printed = <<4, 3>>

\* C2 witness: the scan stopped in the middle of a page after printing.
C2_Witness ==
    /\ pc = "done" /\ StopSeen
    /\ idx < Len(pageitems)
    /\ Len(Printed) > 0

\* C3: when -b is not given, "before" is the first examined post's id + 1
\* and that post, unless "after" excludes it, is in the printed output at
\* the end of the run.
C3_NewestIncluded ==
    (pc = "done" /\ opt_before = NoBound /\ examined # <<>>) =>
        /\ before = examined[1] + 1
        /\ examined[1] > after => examined[1] \in Range(Printed)

\* C4 (as claimed): once a post with id <= after has been examined, no
\* further page request is issued.
C4_BoundaryStopsFetch == [][BoundarySeen => flip' = flip]_vars

\* C4 (amended): once a post with id < after has been examined, no further
\* page request is issued; and no post with id <= after is ever printed.
C4_StrictStopsFetch ==
    /\ [](\A i \in DOMAIN Printed : Printed[i] > after)
    /\ [][StopSeen => flip' = flip]_vars

\* C4 witness: a post with id = after was passed over, a later one stopped
\* the fetch, and something was printed.
C4_Witness ==
    /\ pc = "done" /\ StopSeen
    /\ \E i \in DOMAIN examined : examined[i] = after
    /\ Len(Printed) > 0

\* C5: no post id is printed more than once.
C5_PrintedAtMostOnce == NoDuplicates(Printed)

\* C5 witness: a run with a caught exception and a re-issued request that
\* printed several posts over several pages.
C5_Witness ==
    /\ pc = "done" /\ failed
    /\ Len(Printed) >= 2
    /\ Len(stdout) - Len(Printed) >= 3

\* C6 (as claimed): every page request carries a strictly smaller cursor
\* than the request before it.
C6_CursorStrictlyDecreases ==
    [][(flip' # flip /\ sent # <<>>) => CursorLess(sent'[1], sent[1])]_vars

\* C6 (amended): the cursor of a page request is never larger than that of
\* the request before it, and equals it only when an exception was caught
\* in the iteration between them.
C6_CursorNeverIncreases ==
    [][(flip' # flip /\ sent # <<>>) =>
          \/ CursorLess(sent'[1], sent[1])
          \/ sent'[1] = sent[1] /\ exc # NoExc]_vars

\* C6 witness: a request that carried a cursor has failed and is about to
\* be re-issued.
C6_Witness ==
    /\ pc = "request" /\ exc # NoExc
    /\ sent = <<lastid>> /\ lastid # None

\* C7: once "before" has a value other than NoBound it never changes.
C7_BeforeStable == [][before # NoBound => before' = before]_vars

\* C7 witness: "before" was resolved from the first post and later posts
\* of a later page have been examined.
C7_Witness ==
    /\ opt_before = NoBound /\ before # NoBound
    /\ Len(examined) >= 3
    /\ Len(stdout) - Len(Printed) >= 2

\* C8: once upstream is down for good (every request fails with 503), the
\* run ends with exit status 0.
C8_OutageTerminates ==
    outage ~> (pc = "done" /\ exitcode = Some(EXIT_SUCCESS))

\* C9: a page request that fails with an ABORT outcome of handleTweepError
\* (the cursor cannot have advanced) ends the fetch: it is not re-issued.
C9_AbortEndsFetch ==
    [][(flip' # flip /\ AbortOutcome(exc')) => pc' = "done"]_vars

\* C10: a page request that fails with IncompleteRead is followed by a
\* sleep of 5 seconds and a new request with the same cursor.
C10_IncompleteReadRetried ==
    [][(flip' # flip /\ exc'.class = "IncompleteRead") =>
          /\ slept' = IncompleteReadSleep
          /\ pc' = "request"
          /\ lastid' = lastid]_vars

\* e is a rate-limit response for which the quota status reports no
\* remaining hits and a reset time in the future.
RealRateLimit(e) ==
    /\ e.class = "TweepError" /\ e.quota_ok
    /\ e.status \in {RateLimited, SearchRateLimited}
    /\ e.remaining_hits = 0 /\ e.reset_in > 0

\* e is a rate-limit response although the quota status reports hits left.
FalseAlarm(e) ==
    /\ e.class = "TweepError" /\ e.quota_ok
    /\ e.status \in {RateLimited, SearchRateLimited}
    /\ e.remaining_hits > 0

\* The number of lines of standard output that name the user.
UserLines == Len(stdout) - Len(Printed)

\* C11: a page request that is really rate limited is followed by a sleep
\* of (reset time - now) + 2 seconds and a new request with the same cursor.
C11_RateLimitSleepsAndRetries ==
    [][(flip' # flip /\ RealRateLimit(exc')) =>
          /\ slept' = exc'.reset_in + SleepMargin
          /\ pc' = "request"
          /\ lastid' = lastid]_vars

\* C12: a page request that is rate limited while hits remain causes no
\* sleep and does not end the fetch.
C12_FalseAlarmIgnored ==
    [][(flip' # flip /\ FalseAlarm(exc')) =>
          /\ slept' = 0
          /\ pc' # "done"]_vars

\* C13: when the t.co lookup of a retained post fails, the post is printed
\* all the same and the scan goes on with the posts that follow it.
C13_LookupFailureStillPrints ==
    [][(pc = "scan" /\ exc'.class = "OSError") =>
          /\ stdout' = Append(stdout, PostLine(pageitems[idx]))
          /\ idx < Len(pageitems) => (pc' = "scan" /\ idx' = idx + 1)]_vars

\* C14: whenever standard output is not empty, its first line names the
\* user and no other line does.
C14_OneUserLine ==
    stdout # <<>> => (stdout[1] = UserLine /\ UserLines = 1)

\* C17 (as claimed): a run without any failure is over only after a page
\* request has returned an empty page.
C17_OnlyEmptyPageEnds ==
    (pc = "done" /\ ~failed) => (sent # <<>> /\ pageitems = <<>>)

\* C17 (amended): a run without any failure is over exactly when a page
\* request has returned an empty page, or a post with id < after has been
\* examined, or the cursor has reached 0.
C17_NonErrorEndings ==
    ~failed =>
        (pc = "done" <=>
            \/ sent # <<>> /\ pageitems = <<>>
            \/ StopSeen
            \/ lastid = Some(0))

\* C17 witness: failure-free runs have ended on an empty page that followed
\* printed posts.
C17_Witness ==
    /\ pc = "done" /\ ~failed
    /\ pageitems = <<>> /\ Len(Printed) > 0

\* C18: a page request that fails with 401 Unauthorized ends the run, and
\* not with exit status 0.
C18_UnauthorizedAborts ==
    [][(flip' # flip /\ exc'.class = "TweepError"
        /\ exc'.status = Unauthorized) =>
          /\ pc' = "done"
          /\ exitcode' # Some(EXIT_SUCCESS)]_vars

C15_InterruptExits ==
    exc = KeyboardInterrupt => (pc = "done" /\ exitcode = Some(EXIT_ERROR))

\* C15 witness: the interrupt arrived in the fetch loop after posts were
\* printed, with a cursor the loop could have continued from.
C15_Witness ==
    /\ exc = KeyboardInterrupt /\ pc = "done"
    /\ Len(Printed) > 0 /\ Truthy(lastid) /\ loop

\* The run ended in parseOptions with the usage message on standard error.
UsageOnStderr ==
    /\ pc = "done" /\ exitcode = Some(EXIT_ERROR)
    /\ stderr = <<"usage">> /\ stdout = <<>>
    /\ ~cfg_read /\ sent = <<>>

\* The run ended in parseOptions with the usage message on standard output.
UsageOnStdout ==
    /\ pc = "done" /\ exitcode = Some(EXIT_SUCCESS)
    /\ stdout = <<UsageText>> /\ stderr = <<>>
    /\ ~cfg_read /\ sent = <<>>

\* The run ended in parseOptions with the "Invalid argument" message.
InvalidOnStderr ==
    /\ pc = "done" /\ exitcode = Some(EXIT_ERROR)
    /\ stderr = <<"invalid">> /\ stdout = <<>>
    /\ ~cfg_read /\ sent = <<>>

HasOpt(av, o) == \E i \in 1..Len(av) : av[i].opt = o

C20_CompleteCredentials ==
    pc = "setupApi" => \A f \in Fields : Line(user, f) \in users

====
